---- MODULE Spec2Model ----
(***************************************************************************)
(* Weighted statistical aggregation engine of the Pew W152 dashboard       *)
(* (src/app.py, src/config.py): weighted_pct, weighted_crosstab,           *)
(* cramers_v and the chi-square sections of the Statistical Analysis page. *)
(*                                                                         *)
(* Numbers.  A weight is an integer count of 1/WDen units (w = 3 with      *)
(* WDen = 4 is the float 0.75), so sums of weights are exact.  A value     *)
(* rounded to one decimal place is held as its integer number of tenths    *)
(* (pct = 333 is 33.3).  chi2 and the square of Cramer's V are exact       *)
(* rationals <<numerator, denominator>>.                                   *)
(***************************************************************************)
EXTENDS Integers, Sequences, FiniteSets, TLC

VARIABLES df, call, ret

vars == <<df, call, ret>>

(***************************************************************************)
(* Bounds of the model.                                                    *)
(***************************************************************************)
WDen == 4
MaxW == 2
MaxRecPct == 3
MaxRecXtab == 2
MaxRecChi == 4

\* records of a dataset of the association tests with unequal weights
MaxRecChiW == 3

\* records of a dataset of the confidence-interval section
MaxRecCi == 3

\* datasets with negative weights: records, and the largest magnitude of a
\* negative weight in 1/WDen units
MaxRecNeg == 2

NegW == 1

\* records of a dataset handed to the calculators with reordered label maps
MaxRecOrder == 2

\* records of a dataset with answers that are not keys of the label map
MaxRecBase == 2

\* records of a dataset in which a weight may be missing
MaxRecMissing == 2

\* records of a dataset whose effective sample size is computed
MaxRecNEff == 3

\* records of a dataset cross-tabulated and summarised group by group
MaxRecGroup == 2

\* datasets whose weights are multiplied by a constant: records, and the
\* largest constant
MaxRecScale == 2

MaxScale == 2

\* a session of calculator calls: records of its dataset, and calls made
MaxRecSession == 2

MaxCalls == 3

\* sessions that run the script at the same time, and records of the
\* dataset they share
NSessions == 2

MaxRecConc == 1

\* Cramer's V handed to the effect band, in units of 1/VDen, up to MaxV units
VDen == 20

MaxV == 30

\* p-values handed to the significance band, in units of 1/PDen
PDen == 1000

(***************************************************************************)
(* Configuration (src/config.py).                                          *)
(***************************************************************************)
REFUSED_CODE == 99

\* pandas NaN: a cell with no value
NA == -1

\* NaN in the weight column: a record with no weight.  It is kept apart from
\* NA because a negative weight can take the value of NA.
NaNWeight == -1000

CHATUSE_VALUES ==
    << [code |-> 1, label |-> "Yes"], [code |-> 2, label |-> "No"],
       [code |-> 99, label |-> "Refused"] >>

USEAI_VALUES ==
    << [code |-> 1, label |-> "Yes, regularly"],
       [code |-> 2, label |-> "Yes, occasionally"],
       [code |-> 3, label |-> "No"], [code |-> 99, label |-> "Refused"] >>

DRIVE1_VALUES ==
    << [code |-> 1, label |-> "Every day"],
       [code |-> 2, label |-> "A few times a week"],
       [code |-> 3, label |-> "A few times a month"],
       [code |-> 4, label |-> "A few times a year"],
       [code |-> 5, label |-> "Rarely"], [code |-> 6, label |-> "Never"],
       [code |-> 99, label |-> "Refused"] >>

\* DEMO_VALUES["F_GENDER"]
F_GENDER_VALUES ==
    << [code |-> 1, label |-> "Male"], [code |-> 2, label |-> "Female"],
       [code |-> 3, label |-> "Other"], [code |-> 99, label |-> "Refused"] >>

\* DEMO_VALUES["F_METRO"]
F_METRO_VALUES ==
    << [code |-> 1, label |-> "Metropolitan"],
       [code |-> 2, label |-> "Non-metropolitan"] >>

(***************************************************************************)
(* Python / pandas primitives.                                             *)
(***************************************************************************)
\* dict.keys(): the codes of a label map in insertion order
keys(value_map) == [k \in 1..Len(value_map) |-> value_map[k].code]

\* dict lookup value_map[val]
lookup(value_map, val) ==
    value_map[CHOOSE k \in 1..Len(value_map) : value_map[k].code = val].label

RECURSIVE insert(_, _)
insert(x, s) ==
    IF s = <<>> THEN <<x>>
    ELSE IF x <= Head(s) THEN <<x>> \o s
    ELSE <<Head(s)>> \o insert(x, Tail(s))

\* Python sorted() on a list of numbers
RECURSIVE sorted(_)
sorted(s) == IF s = <<>> THEN <<>> ELSE insert(Head(s), sorted(Tail(s)))

\* df[c]: one column of a frame
Column(frame, c) == [i \in DOMAIN frame |-> frame[i][c]]

\* mutant of skipna: a NaN weight is added like a number
skipna_off(w) == w

\* Series.sum(skipna=True), the default: a NaN element adds nothing
skipna(w) == IF w = NaNWeight THEN 0 ELSE w

\* Series.sum() of the weights at the positions idx
RECURSIVE wsum(_, _)
wsum(weights, idx) ==
    IF idx = {} THEN 0
    ELSE LET i == CHOOSE j \in idx : TRUE
         IN skipna(weights[i]) + wsum(weights, idx \ {i})

\* sum() of a sequence of numbers
RECURSIVE seq_sum(_)
seq_sum(s) == IF s = <<>> THEN 0 ELSE Head(s) + seq_sum(Tail(s))

\* num/den (den > 0) rounded to the nearest integer, ties to the even one
RoundHalfEven(num, den) ==
    LET q == (2 * num + den) \div (2 * den)
        tie == (2 * num + den) % (2 * den) = 0
    IN IF tie /\ q % 2 = 1 THEN q - 1 ELSE q

\* mutant of round1: the digits after the first decimal are cut off
trunc1(num, den) == (10 * num) \div den

\* round(num/den, 1), as a number of tenths
round1(num, den) == RoundHalfEven(10 * num, den)

(***************************************************************************)
(* weighted_pct (src/app.py 136-153).  series and weights are parallel     *)
(* sequences; the result is the sequence of rows of the DataFrame.         *)
(***************************************************************************)
\* mutant of total_w_of: the refused answers stay in the base
total_w_with_refused(series, weights, exclude_refused) ==
    wsum(weights, {i \in DOMAIN series : series[i] # NA})

\* mutant of total_w_of: series.notna() is left out of the mask
total_w_with_missing(series, weights, exclude_refused) ==
    wsum(weights, {i \in DOMAIN series :
                      exclude_refused => series[i] # REFUSED_CODE})

\* total_w = w.sum() over the mask
total_w_of(series, weights, exclude_refused) ==
    LET mask == {i \in DOMAIN series :
                    /\ series[i] # NA
                    /\ (exclude_refused => series[i] # REFUSED_CODE)}
    IN wsum(weights, mask)

\* mutant of pct_of: the division is not guarded, and numpy's 0.0 / 0.0 is NaN
pct_of_unguarded(wn, total_w) ==
    IF total_w = 0 THEN NA ELSE round1(wn * 100, total_w)

\* mutant of pct_of: the weighted count is rounded to one decimal before it
\* is divided by the base
pct_of_rounded_count(wn, total_w) ==
    IF total_w > 0 THEN round1(round1(wn, WDen) * WDen * 10, total_w) ELSE 0

\* pct = wn / total_w * 100 if total_w > 0 else 0, then round(pct, 1)
pct_of(wn, total_w) == IF total_w > 0 THEN round1(wn * 100, total_w) ELSE 0

\* mutant of weighted_pct: the keys are taken in the insertion order of the map
weighted_pct_insertion_order(series, weights, value_map, exclude_refused) ==
    LET mask == {i \in DOMAIN series :
                    /\ series[i] # NA
                    /\ (exclude_refused => series[i] # REFUSED_CODE)}
        total_w == total_w_of(series, weights, exclude_refused)
        Kept(val) == ~(exclude_refused /\ val = REFUSED_CODE)
        vals == SelectSeq(keys(value_map), Kept)
        record(val) ==
            LET sel == {i \in mask : series[i] = val}
                wn == wsum(weights, sel)
            IN [value |-> val, label |-> lookup(value_map, val),
                pct |-> pct_of(wn, total_w),
                weighted_n |-> round1(wn, WDen)]
    IN [k \in 1..Len(vals) |-> record(vals[k])]

\* mutant of weighted_pct: total_w is the weight of the masked answers that
\* are keys of the label map
weighted_pct_listed_base(series, weights, value_map, exclude_refused) ==
    LET mask == {i \in DOMAIN series :
                    /\ series[i] # NA
                    /\ (exclude_refused => series[i] # REFUSED_CODE)}
        listed == {i \in mask :
                      \E k \in 1..Len(value_map) :
                          value_map[k].code = series[i]}
        total_w == wsum(weights, listed)
        Kept(val) == ~(exclude_refused /\ val = REFUSED_CODE)
        vals == SelectSeq(sorted(keys(value_map)), Kept)
        record(val) ==
            LET sel == {i \in mask : series[i] = val}
                wn == wsum(weights, sel)
            IN [value |-> val, label |-> lookup(value_map, val),
                pct |-> pct_of(wn, total_w),
                weighted_n |-> round1(wn, WDen)]
    IN [k \in 1..Len(vals) |-> record(vals[k])]

weighted_pct(series, weights, value_map, exclude_refused) ==
    LET mask == {i \in DOMAIN series :
                    /\ series[i] # NA
                    /\ (exclude_refused => series[i] # REFUSED_CODE)}
        total_w == total_w_of(series, weights, exclude_refused)
        Kept(val) == ~(exclude_refused /\ val = REFUSED_CODE)
        vals == SelectSeq(sorted(keys(value_map)), Kept)
        record(val) ==
            LET sel == {i \in mask : series[i] = val}
                wn == wsum(weights, sel)
            IN [value |-> val, label |-> lookup(value_map, val),
                pct |-> pct_of(wn, total_w),
                weighted_n |-> round1(wn, WDen)]
    IN [k \in 1..Len(vals) |-> record(vals[k])]

(***************************************************************************)
(* weighted_crosstab (src/app.py 156-173).  frame is the dataset, its      *)
(* columns q, d and w standing for q_col, demo_col and weight_col; the     *)
(* result is the sequence of rows of the DataFrame, one per pair of a      *)
(* demographic key and a question key, in the order of the two loops.      *)
(***************************************************************************)
\* mutant of crosstab_mask: refused answers to the question stay in
crosstab_mask_keeps_refused(frame) ==
    {i \in DOMAIN frame :
        /\ frame[i].q # NA /\ frame[i].d # NA
        /\ frame[i].d # REFUSED_CODE}

crosstab_mask(frame) ==
    {i \in DOMAIN frame :
        /\ frame[i].q # NA /\ frame[i].d # NA
        /\ frame[i].q # REFUSED_CODE /\ frame[i].d # REFUSED_CODE}

not_refused(val) == val # REFUSED_CODE

\* mutant of group_total: one base for the whole table
group_total_whole_table(frame, dsub) ==
    wsum(Column(frame, "w"), crosstab_mask(frame))

\* tw = dsub[weight_col].sum()
group_total(frame, dsub) == wsum(Column(frame, "w"), dsub)

\* mutant of weighted_crosstab: the base of a group is the weight of its
\* answers that are keys of q_vals
weighted_crosstab_listed_base(frame, q_vals, demo_vals) ==
    LET sub == crosstab_mask(frame)
        dkeys == SelectSeq(keys(demo_vals), not_refused)
        qkeys == SelectSeq(keys(q_vals), not_refused)
        record(dv, qv) ==
            LET dsub == {i \in sub : frame[i].d = dv}
                tw == wsum(Column(frame, "w"),
                           {i \in dsub :
                               \E k \in 1..Len(qkeys) : frame[i].q = qkeys[k]})
                wn == wsum(Column(frame, "w"), {i \in dsub : frame[i].q = qv})
            IN [demo_label |-> lookup(demo_vals, dv),
                q_label |-> lookup(q_vals, qv),
                pct |-> pct_of(wn, tw)]
    IN [k \in 1..(Len(dkeys) * Len(qkeys)) |->
           record(dkeys[((k - 1) \div Len(qkeys)) + 1],
                  qkeys[((k - 1) % Len(qkeys)) + 1])]

\* mutant of weighted_crosstab: a group without respondents gets no rows
weighted_crosstab_skip_empty(frame, q_vals, demo_vals) ==
    LET sub == crosstab_mask(frame)
        Present(dv) == dv # REFUSED_CODE /\ \E i \in sub : frame[i].d = dv
        dkeys == SelectSeq(keys(demo_vals), Present)
        qkeys == SelectSeq(keys(q_vals), not_refused)
        record(dv, qv) ==
            LET dsub == {i \in sub : frame[i].d = dv}
                tw == group_total(frame, dsub)
                wn == wsum(Column(frame, "w"), {i \in dsub : frame[i].q = qv})
            IN [demo_label |-> lookup(demo_vals, dv),
                q_label |-> lookup(q_vals, qv),
                pct |-> pct_of(wn, tw)]
    IN [k \in 1..(Len(dkeys) * Len(qkeys)) |->
           record(dkeys[((k - 1) \div Len(qkeys)) + 1],
                  qkeys[((k - 1) % Len(qkeys)) + 1])]

weighted_crosstab(frame, q_vals, demo_vals) ==
    LET sub == crosstab_mask(frame)
        dkeys == SelectSeq(keys(demo_vals), not_refused)
        qkeys == SelectSeq(keys(q_vals), not_refused)
        record(dv, qv) ==
            LET dsub == {i \in sub : frame[i].d = dv}
                tw == group_total(frame, dsub)
                wn == wsum(Column(frame, "w"), {i \in dsub : frame[i].q = qv})
            IN [demo_label |-> lookup(demo_vals, dv),
                q_label |-> lookup(q_vals, qv),
                pct |-> pct_of(wn, tw)]
    IN [k \in 1..(Len(dkeys) * Len(qkeys)) |->
           record(dkeys[((k - 1) \div Len(qkeys)) + 1],
                  qkeys[((k - 1) % Len(qkeys)) + 1])]

(***************************************************************************)
(* Exact rationals <<numerator, denominator>>, denominator > 0, in lowest  *)
(* terms.                                                                  *)
(***************************************************************************)
RECURSIVE gcd(_, _)
gcd(a, b) == IF b = 0 THEN a ELSE gcd(b, a % b)

rat(num, den) ==
    LET g == gcd(IF num < 0 THEN 0 - num ELSE num, den)
    IN <<num \div g, den \div g>>

rat_add(x, y) == rat(x[1] * y[2] + y[1] * x[2], x[2] * y[2])

rat_less(x, y) == x[1] * y[2] < y[1] * x[2]

RECURSIVE rat_sum(_)
rat_sum(s) == IF s = <<>> THEN <<0, 1>> ELSE rat_add(Head(s), rat_sum(Tail(s)))

(***************************************************************************)
(* pd.crosstab(df.loc[mask, q_col], df.loc[mask, d_col]): one row per      *)
(* question value present under the mask and one column per demographic    *)
(* value present, both ascending; a cell counts the respondents.           *)
(***************************************************************************)
RECURSIVE sorted_set(_)
sorted_set(S) ==
    IF S = {} THEN <<>>
    ELSE LET m == CHOOSE x \in S : \A y \in S : x <= y
         IN <<m>> \o sorted_set(S \ {m})

\* mutant of crosstab: pd.crosstab(..., values=weights, aggfunc="sum")
crosstab_weighted(frame, mask) ==
    LET index == sorted_set({frame[i].q : i \in mask})
        columns == sorted_set({frame[i].d : i \in mask})
    IN [index |-> index, columns |-> columns,
        counts |-> [a \in 1..Len(index) |-> [b \in 1..Len(columns) |->
            wsum(Column(frame, "w"), {i \in mask : /\ frame[i].q = index[a]
                                      /\ frame[i].d = columns[b]})]]]

crosstab(frame, mask) ==
    LET index == sorted_set({frame[i].q : i \in mask})
        columns == sorted_set({frame[i].d : i \in mask})
    IN [index |-> index, columns |-> columns,
        counts |-> [a \in 1..Len(index) |-> [b \in 1..Len(columns) |->
            Cardinality({i \in mask : /\ frame[i].q = index[a]
                                      /\ frame[i].d = columns[b]})]]]

\* DataFrame.shape
shape(ct) == <<Len(ct.index), Len(ct.columns)>>

row_total(ct, a) == seq_sum(ct.counts[a])

col_total(ct, b) ==
    seq_sum([a \in 1..Len(ct.index) |-> ct.counts[a][b]])

\* contingency_table.sum().sum()
grand_total(ct) ==
    seq_sum([a \in 1..Len(ct.index) |-> row_total(ct, a)])

(***************************************************************************)
(* scipy.stats.chi2_contingency(observed) with its defaults                *)
(* (correction=True), as called at src/app.py 178, 732 and 869: it raises  *)
(* ValueError on a table of size 0 or with an expected frequency of 0;     *)
(* with one degree of freedom it moves every observed count towards its    *)
(* expected value by min(0.5, |expected - observed|) (Yates) before        *)
(* summing (observed - expected)^2 / expected.  With n the grand total,    *)
(* r and c the margins of a cell and o its count, a cell contributes       *)
(* (o*n - r*c)^2 / (n*r*c), and max(0, 2*|o*n - r*c| - n)^2 / (4*n*r*c)    *)
(* under the correction.  The p-value is not modelled.                     *)
(***************************************************************************)
cells(ct) == {<<a, b>> : a \in 1..Len(ct.index), b \in 1..Len(ct.columns)}

cell_seq(ct) ==
    [k \in 1..(Len(ct.index) * Len(ct.columns)) |->
        <<((k - 1) \div Len(ct.columns)) + 1, ((k - 1) % Len(ct.columns)) + 1>>]

pearson_term(ct, a, b) ==
    LET n == grand_total(ct)
        rc == row_total(ct, a) * col_total(ct, b)
        t == ct.counts[a][b] * n - rc
    IN rat(t * t, n * rc)

yates_term(ct, a, b) ==
    LET n == grand_total(ct)
        rc == row_total(ct, a) * col_total(ct, b)
        t == ct.counts[a][b] * n - rc
        u == 2 * (IF t < 0 THEN 0 - t ELSE t) - n
        v == IF u < 0 THEN 0 ELSE u
    IN rat(v * v, 4 * n * rc)

chi2_contingency(ct) ==
    LET dof == (Len(ct.index) - 1) * (Len(ct.columns) - 1)
        cs == cell_seq(ct)
    IN IF Len(ct.index) * Len(ct.columns) = 0
         THEN [status |-> "ValueError"]
       ELSE IF \E x \in cells(ct) : row_total(ct, x[1]) * col_total(ct, x[2]) = 0
         THEN [status |-> "ValueError"]
       ELSE IF dof = 0
         THEN [status |-> "ok", chi2 |-> <<0, 1>>, dof |-> 0]
       ELSE IF dof = 1
         THEN [status |-> "ok", dof |-> dof,
               chi2 |-> rat_sum([k \in 1..Len(cs) |->
                                    yates_term(ct, cs[k][1], cs[k][2])])]
       ELSE [status |-> "ok", dof |-> dof,
             chi2 |-> rat_sum([k \in 1..Len(cs) |->
                                  pearson_term(ct, cs[k][1], cs[k][2])])]

(***************************************************************************)
(* cramers_v (src/app.py 176-183).  The result is the square of the float  *)
(* the function returns, as an exact rational: math.sqrt is not computed.  *)
(***************************************************************************)
MinOf(a, b) == IF a <= b THEN a ELSE b

\* mutant of v_squared: chi2 is not divided by n
v_squared_no_n(chi2, n, min_dim) == rat(chi2[1], chi2[2] * min_dim)

\* chi2 / (n * min_dim)
v_squared(chi2, n, min_dim) == rat(chi2[1], chi2[2] * n * min_dim)

cramers_v(contingency_table) ==
    LET r == chi2_contingency(contingency_table)
        n == grand_total(contingency_table)
        min_dim == MinOf(shape(contingency_table)[1],
                         shape(contingency_table)[2]) - 1
    IN IF r.status # "ok" THEN [status |-> r.status]
       ELSE IF min_dim = 0 \/ n = 0 THEN [status |-> "ok", v2 |-> <<0, 1>>]
       ELSE [status |-> "ok", v2 |-> v_squared(r.chi2, n, min_dim)]

\* "Large" if v > 0.5 else ("Medium" if v > 0.3 else ("Small" if v > 0.1
\* else "Negligible")), on the square of v
effect_band(v2) ==
    IF rat_less(<<1, 4>>, v2) THEN "Large"
    ELSE IF rat_less(<<9, 100>>, v2) THEN "Medium"
    ELSE IF rat_less(<<1, 100>>, v2) THEN "Small"
    ELSE "Negligible"

\* mutant of effect: the comparisons are not strict
effect_non_strict(v) ==
    IF ~rat_less(v, <<1, 2>>) THEN "Large"
    ELSE IF ~rat_less(v, <<3, 10>>) THEN "Medium"
    ELSE IF ~rat_less(v, <<1, 10>>) THEN "Small"
    ELSE "Negligible"

\* the effect band of a value v of Cramer's V, v a rational (src/app.py 735,
\* 871-872); effect_band above is the same expression on the square of V
effect(v) ==
    IF rat_less(<<1, 2>>, v) THEN "Large"
    ELSE IF rat_less(<<3, 10>>, v) THEN "Medium"
    ELSE IF rat_less(<<1, 10>>, v) THEN "Small"
    ELSE "Negligible"

\* mutant of sig: the comparisons are not strict
sig_non_strict(p) ==
    IF ~rat_less(<<1, 1000>>, p) THEN "***"
    ELSE IF ~rat_less(<<1, 100>>, p) THEN "**"
    ELSE IF ~rat_less(<<5, 100>>, p) THEN "*"
    ELSE "n.s."

\* the significance band of a p-value, p a rational (src/app.py 734); the
\* stars of the source are written as asterisks
sig(p) ==
    IF rat_less(p, <<1, 1000>>) THEN "***"
    ELSE IF rat_less(p, <<1, 100>>) THEN "**"
    ELSE IF rat_less(p, <<5, 100>>) THEN "*"
    ELSE "n.s."

\* round(x, 2) of a rational, as a number of hundredths
round2(x) == RoundHalfEven(100 * x[1], x[2])

\* the mask of the association tests (src/app.py 727-728, 865-866)
chi_mask(frame) ==
    {i \in DOMAIN frame :
        /\ frame[i].q # NA /\ frame[i].d # NA
        /\ frame[i].q # REFUSED_CODE /\ frame[i].d # REFUSED_CODE}

\* mutant of too_few_categories: "and" for "or"
too_few_on_both_axes(ct) == shape(ct)[1] < 2 /\ shape(ct)[2] < 2

\* ct.shape[0] < 2 or ct.shape[1] < 2 (src/app.py 730)
too_few_categories(ct) == shape(ct)[1] < 2 \/ shape(ct)[2] < 2

\* ct_cust.shape[0] >= 2 and ct_cust.shape[1] >= 2 (src/app.py 868)
enough_categories(ct) == shape(ct)[1] >= 2 /\ shape(ct)[2] >= 2

\* one pass of the battery loop for the pair (q, d): chi2_results afterwards
chi2_battery(frame) ==
    LET ct == crosstab(frame, chi_mask(frame))
        r == chi2_contingency(ct)
        v == cramers_v(ct)
    IN IF too_few_categories(ct) THEN [status |-> "ok", chi2_results |-> <<>>]
       ELSE IF r.status # "ok" THEN [status |-> r.status]
       ELSE [status |-> "ok",
             chi2_results |->
                 << [chi2 |-> round2(r.chi2), df |-> r.dof, v2 |-> v.v2,
                     effect |-> effect_band(v.v2)] >>]

\* the custom chi-square test for the pair (q, d): what the page shows
custom_chi2_test(frame) ==
    LET ct_cust == crosstab(frame, chi_mask(frame))
        r == chi2_contingency(ct_cust)
        v_c == cramers_v(ct_cust)
    IN IF enough_categories(ct_cust)
       THEN IF r.status # "ok" THEN [status |-> r.status]
            ELSE [status |-> "ok", shown |-> "metrics",
                  chi2 |-> round2(r.chi2), df |-> r.dof, v2 |-> v_c.v2,
                  effect |-> effect_band(v_c.v2), observed |-> ct_cust]
       ELSE [status |-> "ok", shown |-> "warning",
             message |-> "Not enough categories to perform chi-square test."]

(***************************************************************************)
(* Weighted proportions with 95% confidence intervals (src/app.py          *)
(* 786-808).  Percentages, standard errors and interval bounds are held    *)
(* as integer hundredths of a percent (round(x * 100, 2)).  The square     *)
(* root is irrational in general: the rounded values are found exactly,    *)
(* by comparing squares in 60-bit arithmetic.                              *)
(***************************************************************************)
\* float nan in a result row
NaN == NA

Half == 2 ^ 15

Word == 2 ^ 30

\* the product of two naturals below 2^30, as <<high word, low word>>
mul64(x, y) ==
    LET x1 == x \div Half
        x0 == x % Half
        y1 == y \div Half
        y0 == y % Half
        mid == x1 * y0 + x0 * y1
        low == (mid % Half) * Half + x0 * y0
    IN <<x1 * y1 + mid \div Half + low \div Word, low % Word>>

leq64(a, b) == a[1] < b[1] \/ (a[1] = b[1] /\ a[2] <= b[2])

\* floor(sqrt(m)) of a natural
isqrt(m) == CHOOSE s \in 0..m : s * s <= m /\ (s + 1) * (s + 1) > m

\* the largest c in lo..hi-1 with c * c <= target, given lo * lo <= target
RECURSIVE sqrt_search(_, _, _)
sqrt_search(lo, hi, target) ==
    IF hi - lo <= 1 THEN lo
    ELSE LET mid == (lo + hi) \div 2
         IN IF leq64(mul64(mid, mid), target)
            THEN sqrt_search(mid, hi, target)
            ELSE sqrt_search(lo, mid, target)

\* floor(k * math.sqrt(m)) for naturals k and m
floor_k_sqrt(k, m) ==
    LET s == isqrt(m)
    IN sqrt_search(k * s, k * (s + 1), mul64(k, k * m))

\* round((n + sign * k * sqrt(m)) / d) to the nearest integer, ties to even
round_sum_sqrt(n, sign, k, m, d) ==
    LET f == floor_k_sqrt(2 * k, m)
        exact == isqrt(m) * isqrt(m) = m
        r == IF sign > 0 THEN f ELSE 0 - (IF exact THEN f ELSE f + 1)
        num == 2 * n + d + r
        q == num \div (2 * d)
        tie == exact /\ num % (2 * d) = 0
    IN IF tie /\ q % 2 = 1 THEN q - 1 ELSE q

\* mutant of mask_ci: refused answers stay in
mask_ci_with_refused(frame) == {i \in DOMAIN frame : frame[i].q # NA}

\* mask_ci (src/app.py 786)
mask_ci(frame) ==
    {i \in DOMAIN frame : frame[i].q # NA /\ frame[i].q # REFUSED_CODE}

\* (sub_ci[W]**2).sum()
sum_w_squared(weights, mask) ==
    wsum([i \in DOMAIN weights |->
             IF weights[i] = NaNWeight THEN NaNWeight
             ELSE weights[i] * weights[i]], mask)

\* mutant of n_eff: the number of included records multiplied, not divided,
\* by the design effect
n_eff_times_deff(weights, mask) ==
    LET total_w_ci == wsum(weights, mask)
        q == sum_w_squared(weights, mask)
    IN IF q = 0 THEN <<0, 0>>
       ELSE rat(Cardinality(mask) * Cardinality(mask) * q,
                total_w_ci * total_w_ci)

\* mutant of n_eff: the number of included records
n_eff_raw_count(weights, mask) == <<Cardinality(mask), 1>>

\* n_eff (src/app.py 789), a fraction <<numerator, denominator>>; 0.0 / 0.0
\* is nan, written <<0, 0>>
n_eff(weights, mask) ==
    LET total_w_ci == wsum(weights, mask)
        q == sum_w_squared(weights, mask)
    IN IF q = 0 THEN <<0, 0>> ELSE rat(total_w_ci * total_w_ci, q)

\* round(n_eff, 0)
eff_n(n) == IF n[2] = 0 THEN NaN ELSE RoundHalfEven(n[1], n[2])

\* math.sqrt raises ValueError: p_hat * (1 - p_hat) / n_eff is negative, that
\* is p_hat < 0 or p_hat > 1 (with total_w_ci = 0 and wn # 0, p_hat is
\* infinite and the argument is -inf)
sqrt_raises(wn, total_w_ci) ==
    IF total_w_ci = 0 THEN wn # 0
    ELSE \/ wn * total_w_ci < 0
         \/ (total_w_ci > 0 /\ wn > total_w_ci)
         \/ (total_w_ci < 0 /\ wn < total_w_ci)

\* p_hat * (1 - p_hat) / n_eff = rad / total_w_ci^4
radicand(wn, total_w_ci, q) == wn * (total_w_ci - wn) * q

\* round(p_hat * 100, 2)
ci_pct(wn, total_w_ci) ==
    IF total_w_ci = 0 THEN NaN
    ELSE IF total_w_ci > 0 THEN RoundHalfEven(10000 * wn, total_w_ci)
    ELSE RoundHalfEven(0 - 10000 * wn, 0 - total_w_ci)

\* round(se * 100, 2)
ci_se(wn, total_w_ci, q) ==
    IF total_w_ci = 0 THEN NaN
    ELSE round_sum_sqrt(0, 1, 10000, radicand(wn, total_w_ci, q),
                        total_w_ci * total_w_ci)

\* mutant of ci_lo: no max(0, ...)
ci_lo_unclipped(wn, total_w_ci, q) ==
    IF total_w_ci = 0 THEN 0
    ELSE round_sum_sqrt(10000 * wn * total_w_ci, -1, 19600,
                        radicand(wn, total_w_ci, q),
                        total_w_ci * total_w_ci)

\* round(ci_lo * 100, 2), ci_lo = max(0, p_hat - 1.96 * se); max(0, nan) is 0
ci_lo(wn, total_w_ci, q) ==
    IF total_w_ci = 0 THEN 0
    ELSE LET lo == round_sum_sqrt(10000 * wn * total_w_ci, -1, 19600,
                                  radicand(wn, total_w_ci, q),
                                  total_w_ci * total_w_ci)
         IN IF lo < 0 THEN 0 ELSE lo

\* round(ci_hi * 100, 2), ci_hi = min(1, p_hat + 1.96 * se); min(1, nan) is 1
ci_hi(wn, total_w_ci, q) ==
    IF total_w_ci = 0 THEN 10000
    ELSE LET hi == round_sum_sqrt(10000 * wn * total_w_ci, 1, 19600,
                                  radicand(wn, total_w_ci, q),
                                  total_w_ci * total_w_ci)
         IN IF hi > 10000 THEN 10000 ELSE hi

\* the section for the question column and its label map: ci_records, or
\* the exception that ends the script run
ci_section(frame, q_vals_ci) ==
    LET mask == mask_ci(frame)
        weights == Column(frame, "w")
        total_w_ci == wsum(weights, mask)
        q == sum_w_squared(weights, mask)
        n == n_eff(weights, mask)
        vals == SelectSeq(keys(q_vals_ci), not_refused)
        wn(val) == wsum(weights, {i \in mask : frame[i].q = val})
    IN IF \E k \in 1..Len(vals) : sqrt_raises(wn(vals[k]), total_w_ci)
       THEN [status |-> "ValueError"]
       ELSE [status |-> "ok",
             ci_records |-> [k \in 1..Len(vals) |->
                 LET w_val == wn(vals[k])
                 IN [Response |-> lookup(q_vals_ci, vals[k]),
                     pct |-> ci_pct(w_val, total_w_ci),
                     se |-> ci_se(w_val, total_w_ci, q),
                     ci_lower |-> ci_lo(w_val, total_w_ci, q),
                     ci_upper |-> ci_hi(w_val, total_w_ci, q),
                     eff_n |-> eff_n(n)]]]

(***************************************************************************)
(* The dataset: one row per respondent, a question column q, a             *)
(* demographic column d and the weight column w (load_data, src/app.py     *)
(* 125-130).                                                               *)
(***************************************************************************)
SeqsUpTo(S, n) == UNION {[1..k -> S] : k \in 0..n}

\* spec.md section 8, concrete scenario 1
Scenario1 ==
    << [q |-> 1, d |-> 1, w |-> 1 * WDen], [q |-> 1, d |-> 1, w |-> 1 * WDen],
       [q |-> 2, d |-> 1, w |-> 1 * WDen], [q |-> 2, d |-> 1, w |-> 1 * WDen],
       [q |-> 99, d |-> 1, w |-> 5 * WDen] >>

\* one respondent per answer of DRIVE1, all with weight 1.0
SixAnswers == [i \in 1..6 |-> [q |-> i, d |-> 1, w |-> WDen]]

PctFrames ==
    SeqsUpTo([q : {1, 2, 3, REFUSED_CODE, NA}, d : {1}, w : 0..MaxW], MaxRecPct)
        \cup {Scenario1, SixAnswers}

PctMaps == {CHATUSE_VALUES, USEAI_VALUES, DRIVE1_VALUES}

\* the entries of a label map whose code is in S, in the map's order
SubMap(value_map, S) == SelectSeq(value_map, LAMBDA e : e.code \in S)

\* answers of a respondent to the question and the demographic variable:
\* every pair of valid codes, and a refused or missing cell on either side
XtabCells ==
    [q : {1, 2}, d : {1, 2}]
        \cup {[q |-> REFUSED_CODE, d |-> 1], [q |-> NA, d |-> 2],
              [q |-> 1, d |-> REFUSED_CODE], [q |-> 2, d |-> NA]}

XtabRecords == {[q |-> c.q, d |-> c.d, w |-> w] : c \in XtabCells, w \in 0..MaxW}

\* spec.md section 8, concrete scenario 2: group 2 has a zero weighted base
Scenario2 ==
    << [q |-> 1, d |-> 1, w |-> 1], [q |-> 2, d |-> 1, w |-> 2],
       [q |-> 2, d |-> 2, w |-> 0], [q |-> REFUSED_CODE, d |-> 2, w |-> 2] >>

\* two groups with different weighted bases
TwoGroups ==
    << [q |-> 1, d |-> 1, w |-> 1], [q |-> 2, d |-> 1, w |-> 2],
       [q |-> 1, d |-> 2, w |-> 2] >>

XtabFrames == SeqsUpTo(XtabRecords, MaxRecXtab) \cup {Scenario2, TwoGroups}

XtabQMaps ==
    {SubMap(CHATUSE_VALUES, S) : S \in {{1, 2, 99}, {1, 99}, {2, 99}}}

XtabDMaps == {F_GENDER_VALUES, F_METRO_VALUES}

InitXtab ==
    /\ df \in XtabFrames
    /\ call = [fn |-> "none"]
    /\ ret = <<>>

\* answers for the association tests: three answers by two groups, and a
\* refused or missing cell
ChiCells ==
    [q : {1, 2, 3}, d : {1, 2}]
        \cup {[q |-> REFUSED_CODE, d |-> 1], [q |-> 1, d |-> NA]}

ChiRecords == {[q |-> c.q, d |-> c.d, w |-> WDen] : c \in ChiCells}

\* spec.md section 8, concrete scenario 3: the observed table [[50,30],[20,40]]
Scenario3 ==
    [i \in 1..140 |->
        [q |-> IF i <= 80 THEN 1 ELSE 2,
         d |-> IF i <= 50 \/ (80 < i /\ i <= 100) THEN 1 ELSE 2,
         w |-> WDen]]

ChiFrames == SeqsUpTo(ChiRecords, MaxRecChi) \cup {Scenario3}

InitChi ==
    /\ df \in ChiFrames
    /\ call = [fn |-> "none"]
    /\ ret = <<>>

\* answers for the association tests on a dataset with unequal weights
ChiWCells == [q : {1, 2}, d : {1, 2}] \cup {[q |-> REFUSED_CODE, d |-> 1]}

\* a record weighs nothing, MaxW units or 1.0
ChiWRecords ==
    {[q |-> c.q, d |-> c.d, w |-> w] : c \in ChiWCells, w \in {0, MaxW, WDen}}

ChiWFrames == SeqsUpTo(ChiWRecords, MaxRecChiW)

InitChiW ==
    /\ df \in ChiWFrames
    /\ call = [fn |-> "none"]
    /\ ret = <<>>

\* spec.md section 8, concrete scenario 4: all weights equal to 1
Scenario4 ==
    << [q |-> 1, d |-> 1, w |-> WDen], [q |-> 1, d |-> 1, w |-> WDen],
       [q |-> 2, d |-> 1, w |-> WDen], [q |-> 3, d |-> 1, w |-> WDen],
       [q |-> REFUSED_CODE, d |-> 1, w |-> WDen] >>

CiFrames ==
    SeqsUpTo([q : {1, 2, REFUSED_CODE, NA}, d : {1}, w : 0..MaxW], MaxRecCi)
        \cup {Scenario4}

\* test_questions entries offered by the ci_q selectbox
CiMaps == {CHATUSE_VALUES, USEAI_VALUES}

InitCi ==
    /\ df \in CiFrames
    /\ call = [fn |-> "none"]
    /\ ret = <<>>

\* datasets of the effective sample size: answered, refused and missing
\* answers with weights from 0 to MaxW units
NEffFrames ==
    SeqsUpTo([q : {1, REFUSED_CODE, NA}, d : {1}, w : 0..MaxW], MaxRecNEff)

InitNEff ==
    /\ df \in NEffFrames
    /\ call = [fn |-> "none"]
    /\ ret = <<>>

\* datasets with valid, refused and missing answers in groups 1 and 2 and
\* with refused demographic values
GroupFrames ==
    SeqsUpTo([q : {1, 2, REFUSED_CODE, NA}, d : {1, 2, REFUSED_CODE},
              w : {1, WDen}], MaxRecGroup)

InitGroup ==
    /\ df \in GroupFrames
    /\ call = [fn |-> "none"]
    /\ ret = <<>>

\* datasets whose weights are multiplied by a constant
ScaleFrames ==
    SeqsUpTo([q : {1, 2}, d : {1, 2}, w : 0..MaxW], MaxRecScale)

InitScale ==
    /\ df \in ScaleFrames
    /\ call = [fn |-> "none"]
    /\ ret = <<>>

\* datasets in which a weight may be negative
NegFrames ==
    SeqsUpTo([q : {1, 2, REFUSED_CODE}, d : {1, 2}, w : (0 - NegW)..MaxW],
             MaxRecNeg)

InitNeg ==
    /\ df \in NegFrames
    /\ call = [fn |-> "none"]
    /\ ret = <<>>

\* datasets in which a record may have no weight
MissingFrames ==
    SeqsUpTo([q : {1, 2, REFUSED_CODE}, d : {1, 2},
              w : {NaNWeight, 1, WDen}], MaxRecMissing)

InitMissing ==
    /\ df \in MissingFrames
    /\ call = [fn |-> "none"]
    /\ ret = <<>>

\* every insertion order of the entries of a label map
Orderings(value_map) ==
    {[k \in 1..Len(value_map) |-> value_map[p[k]]] :
        p \in {f \in [1..Len(value_map) -> 1..Len(value_map)] :
                  \A a, b \in 1..Len(value_map) : a # b => f[a] # f[b]}}

OrderFrames ==
    SeqsUpTo([q : {1, 2, REFUSED_CODE}, d : {1, 2}, w : {WDen}], MaxRecOrder)

InitOrder ==
    /\ df \in OrderFrames
    /\ call = [fn |-> "none"]
    /\ ret = <<>>

InitPct ==
    /\ df \in PctFrames
    /\ call = [fn |-> "none"]
    /\ ret = <<>>

\* one run of the page script has produced nothing yet
Idle == call.fn = "none"

\* Streamlit runs the script again: the previous run's results are dropped,
\* the cached dataset is kept
Rerun ==
    /\ ~Idle
    /\ call' = [fn |-> "none"]
    /\ ret' = <<>>
    /\ UNCHANGED df

CallWeightedPct ==
    \E value_map \in PctMaps, exclude_refused \in BOOLEAN :
        /\ Idle
        /\ call' = [fn |-> "weighted_pct", value_map |-> value_map,
                    exclude_refused |-> exclude_refused]
        /\ ret' = weighted_pct(Column(df, "q"), Column(df, "w"), value_map,
                               exclude_refused)
        /\ UNCHANGED df

CallWeightedCrosstab ==
    \E q_vals \in XtabQMaps, demo_vals \in XtabDMaps :
        /\ Idle
        /\ call' = [fn |-> "weighted_crosstab", q_vals |-> q_vals,
                    demo_vals |-> demo_vals]
        /\ ret' = weighted_crosstab(df, q_vals, demo_vals)
        /\ UNCHANGED df

\* cramers_v applied to the observed table of the dataset
CallCramersV ==
    /\ Idle
    /\ call' = [fn |-> "cramers_v",
                contingency_table |-> crosstab(df, chi_mask(df))]
    /\ ret' = cramers_v(crosstab(df, chi_mask(df)))
    /\ UNCHANGED df

\* the chi-square battery of the Statistical Analysis page
RunChi2Battery ==
    /\ Idle
    /\ call' = [fn |-> "chi2_battery"]
    /\ ret' = chi2_battery(df)
    /\ UNCHANGED df

\* the custom chi-square test of the Statistical Analysis page
RunCustomChi2Test ==
    /\ Idle
    /\ call' = [fn |-> "custom_chi2_test"]
    /\ ret' = custom_chi2_test(df)
    /\ UNCHANGED df

NextPct == CallWeightedPct \/ Rerun

NextChi == CallCramersV \/ RunChi2Battery \/ RunCustomChi2Test \/ Rerun

SpecChi == InitChi /\ [][NextChi]_vars

NextChiW == RunChi2Battery \/ RunCustomChi2Test \/ Rerun

SpecChiW == InitChiW /\ [][NextChiW]_vars

\* the band expressions of the Statistical Analysis page, applied to a value
\* of V and to a p-value
InitBand ==
    /\ df = <<>>
    /\ call = [fn |-> "none"]
    /\ ret = <<>>

ApplyEffect ==
    \E k \in 0..MaxV :
        /\ Idle
        /\ call' = [fn |-> "effect", v |-> <<k, VDen>>]
        /\ ret' = effect(<<k, VDen>>)
        /\ UNCHANGED df

ApplySig ==
    \E k \in 0..PDen :
        /\ Idle
        /\ call' = [fn |-> "sig", p |-> <<k, PDen>>]
        /\ ret' = sig(<<k, PDen>>)
        /\ UNCHANGED df

NextBand == ApplyEffect \/ ApplySig \/ Rerun

SpecBand == InitBand /\ [][NextBand]_vars

\* the confidence-interval section of the Statistical Analysis page
RunCiSection ==
    \E q_vals_ci \in CiMaps :
        /\ Idle
        /\ call' = [fn |-> "ci_section", q_vals_ci |-> q_vals_ci]
        /\ ret' = ci_section(df, q_vals_ci)
        /\ UNCHANGED df

NextCi == RunCiSection \/ Rerun

\* the first step of the confidence-interval section: mask_ci, total_w_ci
\* and n_eff, before the loop over the answers
ComputeNEff ==
    /\ Idle
    /\ call' = [fn |-> "n_eff"]
    /\ ret' = n_eff(Column(df, "w"), mask_ci(df))
    /\ UNCHANGED df

NextNEff == ComputeNEff \/ Rerun

SpecNEff == InitNEff /\ [][NextNEff]_vars

SpecCi == InitCi /\ [][NextCi]_vars

\* the three weighted calculators on datasets with negative weights
NextNeg == CallWeightedPct \/ CallWeightedCrosstab \/ RunCiSection \/ Rerun

SpecNeg == InitNeg /\ [][NextNeg]_vars

\* the weighted calculators over datasets with missing weights
SpecMissing == InitMissing /\ [][NextNeg]_vars

\* the weighted calculators over datasets whose weights are rescaled
SpecScale == InitScale /\ [][NextNeg]_vars

\* weighted_pct with the label map in any insertion order
CallWeightedPctAnyOrder ==
    \E value_map \in Orderings(CHATUSE_VALUES), exclude_refused \in BOOLEAN :
        /\ Idle
        /\ call' = [fn |-> "weighted_pct", value_map |-> value_map,
                    exclude_refused |-> exclude_refused]
        /\ ret' = weighted_pct(Column(df, "q"), Column(df, "w"), value_map,
                               exclude_refused)
        /\ UNCHANGED df

\* weighted_crosstab with both label maps in any insertion order
CallWeightedCrosstabAnyOrder ==
    \E q_vals \in Orderings(CHATUSE_VALUES),
       demo_vals \in Orderings(F_METRO_VALUES) :
        /\ Idle
        /\ call' = [fn |-> "weighted_crosstab", q_vals |-> q_vals,
                    demo_vals |-> demo_vals]
        /\ ret' = weighted_crosstab(df, q_vals, demo_vals)
        /\ UNCHANGED df

NextOrder == CallWeightedPctAnyOrder \/ CallWeightedCrosstabAnyOrder \/ Rerun

SpecOrder == InitOrder /\ [][NextOrder]_vars

\* A session: the calculators are called one after another on the dataset
\* that load_data returned, each call with any arguments; seq counts the calls.
SessionFrames ==
    SeqsUpTo([q : {1, 2, REFUSED_CODE}, d : {1, 2}, w : {WDen}], MaxRecSession)

InitSession ==
    /\ df \in SessionFrames
    /\ call = [fn |-> "none"]
    /\ ret = <<>>

calls_made == IF Idle THEN 0 ELSE call.seq

SessionWeightedPct ==
    \E value_map \in {CHATUSE_VALUES, USEAI_VALUES},
       exclude_refused \in BOOLEAN :
        /\ calls_made < MaxCalls
        /\ call' = [fn |-> "weighted_pct", value_map |-> value_map,
                    exclude_refused |-> exclude_refused,
                    seq |-> calls_made + 1]
        /\ ret' = weighted_pct(Column(df, "q"), Column(df, "w"), value_map,
                               exclude_refused)
        /\ df' = df

\* mutant of SessionWeightedCrosstab: the rows outside the mask are dropped
\* from df itself (df = df[mask]) instead of from a copy
SessionWeightedCrosstabInPlace ==
    \E demo_vals \in XtabDMaps :
        /\ calls_made < MaxCalls
        /\ call' = [fn |-> "weighted_crosstab", q_vals |-> CHATUSE_VALUES,
                    demo_vals |-> demo_vals, seq |-> calls_made + 1]
        /\ ret' = weighted_crosstab(df, CHATUSE_VALUES, demo_vals)
        /\ df' = SelectSeq(df, LAMBDA r : /\ r.q # NA /\ r.d # NA
                                          /\ r.q # REFUSED_CODE
                                          /\ r.d # REFUSED_CODE)

\* sub = df[mask].copy() is a new frame; df is only read
SessionWeightedCrosstab ==
    \E demo_vals \in XtabDMaps :
        /\ calls_made < MaxCalls
        /\ call' = [fn |-> "weighted_crosstab", q_vals |-> CHATUSE_VALUES,
                    demo_vals |-> demo_vals, seq |-> calls_made + 1]
        /\ ret' = weighted_crosstab(df, CHATUSE_VALUES, demo_vals)
        /\ df' = df

SessionCramersV ==
    /\ calls_made < MaxCalls
    /\ call' = [fn |-> "cramers_v",
                contingency_table |-> crosstab(df, chi_mask(df)),
                seq |-> calls_made + 1]
    /\ ret' = cramers_v(crosstab(df, chi_mask(df)))
    /\ df' = df

SessionChi2Battery ==
    /\ calls_made < MaxCalls
    /\ call' = [fn |-> "chi2_battery", seq |-> calls_made + 1]
    /\ ret' = chi2_battery(df)
    /\ df' = df

SessionCiSection ==
    \E q_vals_ci \in CiMaps :
        /\ calls_made < MaxCalls
        /\ call' = [fn |-> "ci_section", q_vals_ci |-> q_vals_ci,
                    seq |-> calls_made + 1]
        /\ ret' = ci_section(df, q_vals_ci)
        /\ df' = df

NextSession ==
    \/ SessionWeightedPct \/ SessionWeightedCrosstab \/ SessionCramersV
    \/ SessionChi2Battery \/ SessionCiSection

SpecSession == InitSession /\ [][NextSession]_vars

(***************************************************************************)
(* Several sessions: Streamlit runs the script of each session in a thread *)
(* of its own.  A call of weighted_pct or weighted_crosstab is a           *)
(* sequence of steps on the locals of its own frame (mask, total_w or sub, *)
(* records); the steps of different sessions interleave.  call[s] is the   *)
(* frame of session s and ret[s] what its call returned.                   *)
(***************************************************************************)
Sessions == 1..NSessions

ConcFrames ==
    SeqsUpTo([q : {1, 2}, d : {1, 2}, w : {WDen}], MaxRecConc)
        \cup {Scenario2, TwoGroups}

no_frame ==
    [fn |-> "none", pc |-> "idle", value_map |-> <<>>,
     exclude_refused |-> TRUE, demo_vals |-> <<>>, mask |-> {}, total_w |-> 0,
     records |-> <<>>]

InitConc ==
    /\ df \in ConcFrames
    /\ call = [s \in Sessions |-> no_frame]
    /\ ret = [s \in Sessions |-> <<>>]

\* the keys weighted_pct loops over (src/app.py 145-147)
pct_loop_keys(value_map, exclude_refused) ==
    SelectSeq(sorted(keys(value_map)),
              LAMBDA val : ~(exclude_refused /\ val = REFUSED_CODE))

\* one pass of the loop of weighted_pct (src/app.py 148-152)
pct_record(frame, mask, total_w, value_map, val) ==
    LET wn == wsum(Column(frame, "w"), {i \in mask : frame[i].q = val})
    IN [value |-> val, label |-> lookup(value_map, val),
        pct |-> pct_of(wn, total_w), weighted_n |-> round1(wn, WDen)]

\* the pairs weighted_crosstab loops over, demographic category first
\* (src/app.py 162-169)
xtab_loop_pairs(q_vals, demo_vals) ==
    LET dkeys == SelectSeq(keys(demo_vals), not_refused)
        qkeys == SelectSeq(keys(q_vals), not_refused)
    IN [k \in 1..(Len(dkeys) * Len(qkeys)) |->
           <<dkeys[((k - 1) \div Len(qkeys)) + 1],
             qkeys[((k - 1) % Len(qkeys)) + 1]>>]

\* one pass of the inner loop of weighted_crosstab (src/app.py 165-172)
xtab_record(frame, sub, q_vals, demo_vals, dv, qv) ==
    LET dsub == {i \in sub : frame[i].d = dv}
        tw == group_total(frame, dsub)
        wn == wsum(Column(frame, "w"), {i \in dsub : frame[i].q = qv})
    IN [demo_label |-> lookup(demo_vals, dv), q_label |-> lookup(q_vals, qv),
        pct |-> pct_of(wn, tw)]

\* session s calls weighted_pct(df[q], df[W], value_map, exclude_refused)
EnterWeightedPct(s) ==
    \E exclude_refused \in BOOLEAN :
        /\ call[s].pc = "idle"
        /\ call' = [call EXCEPT ![s] =
                       [no_frame EXCEPT !.fn = "weighted_pct", !.pc = "mask",
                                        !.value_map = CHATUSE_VALUES,
                                        !.exclude_refused = exclude_refused]]
        /\ UNCHANGED <<df, ret>>

\* session s calls weighted_crosstab(df, q, d, q_vals, demo_vals)
EnterWeightedCrosstab(s) ==
    /\ call[s].pc = "idle"
    /\ call' = [call EXCEPT ![s] =
                   [no_frame EXCEPT !.fn = "weighted_crosstab", !.pc = "mask",
                                    !.value_map = CHATUSE_VALUES,
                                    !.demo_vals = F_METRO_VALUES]]
    /\ UNCHANGED <<df, ret>>

\* mask = ... (src/app.py 137-139, 158-159)
ComputeMask(s) ==
    /\ call[s].pc = "mask"
    /\ call' = [call EXCEPT
                   ![s].mask =
                       IF call[s].fn = "weighted_pct"
                       THEN {i \in DOMAIN df :
                               /\ df[i].q # NA
                               /\ (call[s].exclude_refused
                                      => df[i].q # REFUSED_CODE)}
                       ELSE crosstab_mask(df),
                   ![s].pc = "base"]
    /\ UNCHANGED <<df, ret>>

\* s, w, total_w and records = [] (src/app.py 140-144); sub and
\* records = [] (src/app.py 160-161)
ComputeBase(s) ==
    /\ call[s].pc = "base"
    /\ call' = [call EXCEPT
                   ![s].total_w =
                       IF call[s].fn = "weighted_pct"
                       THEN wsum(Column(df, "w"), call[s].mask)
                       ELSE 0,
                   ![s].records = <<>>,
                   ![s].pc = "loop"]
    /\ UNCHANGED <<df, ret>>

\* the rows the call of session s is to append
loop_length(s) ==
    IF call[s].fn = "weighted_pct"
    THEN Len(pct_loop_keys(call[s].value_map, call[s].exclude_refused))
    ELSE Len(xtab_loop_pairs(call[s].value_map, call[s].demo_vals))

\* the row of the next pass of the loop of session s
next_record(s) ==
    LET k == Len(call[s].records) + 1
    IN IF call[s].fn = "weighted_pct"
       THEN pct_record(df, call[s].mask, call[s].total_w, call[s].value_map,
                       pct_loop_keys(call[s].value_map,
                                     call[s].exclude_refused)[k])
       ELSE LET pair == xtab_loop_pairs(call[s].value_map,
                                        call[s].demo_vals)[k]
            IN xtab_record(df, call[s].mask, call[s].value_map,
                           call[s].demo_vals, pair[1], pair[2])

\* mutant of AppendRecord: records is one list of the module, shared by the
\* calls of all sessions
AppendRecordShared(s) ==
    /\ call[s].pc = "loop"
    /\ Len(call[s].records) < loop_length(s)
    /\ call' = [t \in Sessions |->
                   IF t = s \/ call[t].pc = "loop"
                   THEN [call[t] EXCEPT
                            !.records = Append(call[t].records, next_record(s))]
                   ELSE call[t]]
    /\ UNCHANGED <<df, ret>>

\* records.append({...}) (src/app.py 150-152, 171-172)
AppendRecord(s) ==
    /\ call[s].pc = "loop"
    /\ Len(call[s].records) < loop_length(s)
    /\ call' = [call EXCEPT
                   ![s].records = Append(call[s].records, next_record(s))]
    /\ UNCHANGED <<df, ret>>

\* return pd.DataFrame(records) (src/app.py 153, 173)
Return(s) ==
    /\ call[s].pc = "loop"
    /\ Len(call[s].records) >= loop_length(s)
    /\ call' = [call EXCEPT ![s].pc = "done"]
    /\ ret' = [ret EXCEPT ![s] = call[s].records]
    /\ UNCHANGED df

\* the script of session s runs again
RerunSession(s) ==
    /\ call[s].pc = "done"
    /\ call' = [call EXCEPT ![s] = no_frame]
    /\ ret' = [ret EXCEPT ![s] = <<>>]
    /\ UNCHANGED df

NextConc ==
    \E s \in Sessions :
        \/ EnterWeightedPct(s) \/ EnterWeightedCrosstab(s)
        \/ ComputeMask(s) \/ ComputeBase(s) \/ AppendRecord(s)
        \/ Return(s) \/ RerunSession(s)

SpecConc == InitConc /\ [][NextConc]_vars

\* datasets for weighted_pct in which an answer may be missing, refused or
\* a code (3) that CHATUSE_VALUES does not list
BaseFrames ==
    SeqsUpTo([q : {1, 2, 3, REFUSED_CODE, NA}, d : {1}, w : 0..MaxW],
             MaxRecBase)

InitBase ==
    /\ df \in BaseFrames
    /\ call = [fn |-> "none"]
    /\ ret = <<>>

SpecBase == InitBase /\ [][NextPct]_vars

\* the Cross-Tabulations page: the question's label map may be empty
\* (all_question_values.get(sel_q, {})), and both columns are in df
crosstab_page(frame, q_vals, d_vals) ==
    IF q_vals # <<>> /\ d_vals # <<>>
    THEN LET ct_data == weighted_crosstab(frame, q_vals, d_vals)
         IN IF ct_data # <<>>
            THEN [shown |-> "table", ct_data |-> ct_data]
            ELSE [shown |-> "warning"]
    ELSE [shown |-> "info"]

\* label maps the page hands over: CHATUSE_VALUES, a map with the refused
\* entry only, and no map
PageQMaps == {CHATUSE_VALUES, SubMap(CHATUSE_VALUES, {REFUSED_CODE}), <<>>}

PageDMaps == {F_GENDER_VALUES, F_METRO_VALUES}

RunCrosstabPage ==
    \E q_vals \in PageQMaps, d_vals \in PageDMaps :
        /\ Idle
        /\ call' = [fn |-> "crosstab_page", q_vals |-> q_vals,
                    d_vals |-> d_vals]
        /\ ret' = crosstab_page(df, q_vals, d_vals)
        /\ UNCHANGED df

NextPage == RunCrosstabPage \/ Rerun

SpecPage == InitXtab /\ [][NextPage]_vars

NextXtab == CallWeightedCrosstab \/ Rerun

SpecXtab == InitXtab /\ [][NextXtab]_vars

\* weighted_crosstab over datasets with refused demographic values
SpecGroup == InitGroup /\ [][NextXtab]_vars

SpecPct == InitPct /\ [][NextPct]_vars

(***************************************************************************)
(* Vocabulary of the properties, stated on the dataset and the returned    *)
(* rows without the calculators' own intermediate values.                  *)
(***************************************************************************)
Abs(x) == IF x < 0 THEN 0 - x ELSE x

\* f[1] + ... + f[n]
RECURSIVE SumTo(_, _)
SumTo(f, n) == IF n = 0 THEN 0 ELSE f[n] + SumTo(f, n - 1)

Codes(value_map) == {value_map[k].code : k \in 1..Len(value_map)}

InPct == call.fn = "weighted_pct"

\* record i is in the percentage base of the current weighted_pct call
Included(i) ==
    /\ df[i].q # NA
    /\ (call.exclude_refused => df[i].q # REFUSED_CODE)

\* total weight, in 1/WDen units, of the included records whose answer is in S
WeightIn(S) ==
    SumTo([i \in 1..Len(df) |->
              IF Included(i) /\ df[i].q \in S THEN df[i].w ELSE 0], Len(df))

IncludedTotal == WeightIn({df[i].q : i \in 1..Len(df)})

AllIncludedListed ==
    \A i \in 1..Len(df) : Included(i) => df[i].q \in Codes(call.value_map)

SumPct(rows) == SumTo([k \in 1..Len(rows) |-> rows[k].pct], Len(rows))

NonRefusedRows(rows) == SelectSeq(rows, LAMBDA r : r.value # REFUSED_CODE)

\* the codes weighted_pct is to report for the current call
ReportedCodes ==
    {c \in Codes(call.value_map) :
        ~(call.exclude_refused /\ c = REFUSED_CODE)}

\* C1 (as stated): for every weighted_pct call whose included weight total is
\* positive, the pct values of the returned non-refused rows sum to 100.0
\* within 0.1.
C1_SumWithinTenth ==
    (InPct /\ IncludedTotal > 0)
        => Abs(SumPct(NonRefusedRows(ret)) - 1000) <= 1

\* C1 (amended): when the included weight total is positive and every included
\* record's value is a key of the label map, the pct values of all returned
\* rows sum to 100.0 within 0.05 per returned row.
C1_SumWithinHalfTenthPerRow ==
    (InPct /\ IncludedTotal > 0 /\ AllIncludedListed)
        => 2 * Abs(SumPct(ret) - 1000) <= Len(ret)

\* C1 witness: six equally weighted answers, each reported as 16.7, sum to 100.2
C1_Witness ==
    /\ InPct
    /\ IncludedTotal > 0
    /\ AllIncludedListed
    /\ Len(ret) = 6
    /\ SumPct(ret) = 1002

\* C2: for every code of the label map (the refused code excepted when
\* exclude_refused is on) there is one row; its weighted_n is the weight of
\* the included records with that code and its pct is that weight over the
\* included total times 100, each to the nearest tenth, when the total is > 0.
C2_RowsAreWeightedShares ==
    (InPct /\ IncludedTotal > 0) =>
        \A c \in ReportedCodes :
            /\ Cardinality({k \in 1..Len(ret) : ret[k].value = c}) = 1
            /\ \A k \in 1..Len(ret) :
                ret[k].value = c =>
                    /\ 2 * Abs(10 * WeightIn({c}) - ret[k].weighted_n * WDen)
                           <= WDen
                    /\ 2 * Abs(1000 * WeightIn({c}) - ret[k].pct * IncludedTotal)
                           <= IncludedTotal

\* C2 witness: spec.md scenario 1, A and B each weighted_n 2.0 and 50.0 %
C2_Witness ==
    /\ InPct
    /\ df = Scenario1
    /\ call.exclude_refused
    /\ call.value_map = CHATUSE_VALUES
    /\ Len(ret) = 2
    /\ \A k \in 1..2 : ret[k].pct = 500 /\ ret[k].weighted_n = 20

\* C3: when every record is missing or refused, weighted_pct returns one row
\* per non-refused code of the label map, each with pct 0 and weighted_n 0.
C3_ZeroBaseGivesZeroRows ==
    (InPct /\ \A i \in 1..Len(df) : df[i].q \in {NA, REFUSED_CODE}) =>
        /\ \A c \in Codes(call.value_map) \ {REFUSED_CODE} :
              Cardinality({k \in 1..Len(ret) : ret[k].value = c}) = 1
        /\ \A k \in 1..Len(ret) :
              ret[k].value # REFUSED_CODE =>
                  ret[k].pct = 0 /\ ret[k].weighted_n = 0

\* C3 witness: a missing and a refused record with positive weights, refused
\* excluded, and the rows of the label map returned
C3_Witness ==
    /\ InPct
    /\ call.exclude_refused
    /\ Len(df) >= 2
    /\ \A i \in 1..Len(df) : df[i].q \in {NA, REFUSED_CODE} /\ df[i].w > 0
    /\ \E i \in 1..Len(df) : df[i].q = NA
    /\ \E i \in 1..Len(df) : df[i].q = REFUSED_CODE
    /\ Len(ret) = 3

InXtab == call.fn = "weighted_crosstab"

\* record i passes the cross-tabulation mask
BothAnswered(i) ==
    /\ df[i].q \notin {NA, REFUSED_CODE}
    /\ df[i].d \notin {NA, REFUSED_CODE}

\* weighted base, in 1/WDen units, of demographic category dv after masking
GroupBase(dv) ==
    SumTo([i \in 1..Len(df) |->
              IF BothAnswered(i) /\ df[i].d = dv THEN df[i].w ELSE 0], Len(df))

\* every masked answer of the respondents of category dv is a key of q_vals
GroupListed(dv) ==
    \A i \in 1..Len(df) :
        (BothAnswered(i) /\ df[i].d = dv) => df[i].q \in Codes(call.q_vals)

\* the rows of a cross-tabulation for one demographic label
RowsOf(rows, dl) == SelectSeq(rows, LAMBDA r : r.demo_label = dl)

DemoCodes == Codes(call.demo_vals) \ {REFUSED_CODE}

QCodes == Codes(call.q_vals) \ {REFUSED_CODE}

\* C4 (as stated): for every non-refused demographic category the pct values
\* of its rows sum to 100 (within 0.05 per row) when its weighted base is
\* positive, and are all 0 when that base is 0.
C4_GroupSumsTo100 ==
    InXtab =>
        \A dv \in DemoCodes :
            LET rows == RowsOf(ret, lookup(call.demo_vals, dv))
            IN IF GroupBase(dv) > 0
               THEN 2 * Abs(SumPct(rows) - 1000) <= Len(rows)
               ELSE \A k \in 1..Len(rows) : rows[k].pct = 0

\* C4 (amended): the same, for the demographic categories with a positive base
\* all of whose masked records have a question value that is a key of the
\* question label map.
C4_ListedGroupSumsTo100 ==
    InXtab =>
        \A dv \in DemoCodes :
            LET rows == RowsOf(ret, lookup(call.demo_vals, dv))
            IN IF GroupBase(dv) > 0
               THEN GroupListed(dv)
                        => 2 * Abs(SumPct(rows) - 1000) <= Len(rows)
               ELSE \A k \in 1..Len(rows) : rows[k].pct = 0

\* C4 witness: two groups with different bases, each normalised on its own
\* (33.3 + 66.7 in group 1 and 100 + 0 in group 2)
C4_Witness ==
    /\ InXtab
    /\ call.q_vals = CHATUSE_VALUES
    /\ GroupBase(1) > 0 /\ GroupBase(2) > 0 /\ GroupBase(1) # GroupBase(2)
    /\ \E k \in 1..Len(ret) : ret[k].pct = 333
    /\ \E k \in 1..Len(ret) : ret[k].pct = 1000

\* C5: a call with a sub-map of the question label map returns, for every pair
\* of a demographic category and a question category it reports, the pct the
\* call with the full map returns for that pair.
C5_SubMapSamePct ==
    InXtab =>
        \A s \in XtabQMaps :
            Codes(s) \subseteq Codes(call.q_vals) =>
                LET part == weighted_crosstab(df, s, call.demo_vals)
                IN \A k \in 1..Len(part) :
                       \E j \in 1..Len(ret) :
                           /\ ret[j].demo_label = part[k].demo_label
                           /\ ret[j].q_label = part[k].q_label
                           /\ ret[j].pct = part[k].pct

\* C5 witness: the full map reports 33.3 and 66.7 in a group, so a sub-map
\* that lists one of the two answers reports a share below 100
C5_Witness ==
    /\ InXtab
    /\ call.q_vals = CHATUSE_VALUES
    /\ \E k \in 1..Len(ret) : ret[k].pct = 333
    /\ \E k \in 1..Len(ret) : ret[k].pct = 667

\* the label map without the entry of code dv
Without(value_map, dv) == SelectSeq(value_map, LAMBDA e : e.code # dv)

\* C6: a demographic category with weighted base 0 has a row with pct 0 for
\* every question category, and the other categories' rows are those of the
\* call without that category in the demographic label map.
C6_EmptyGroupIsZero ==
    InXtab =>
        \A dv \in DemoCodes :
            GroupBase(dv) = 0 =>
                LET dl == lookup(call.demo_vals, dv)
                    rows == RowsOf(ret, dl)
                IN /\ Len(rows) = Cardinality(QCodes)
                   /\ \A k \in 1..Len(rows) : rows[k].pct = 0
                   /\ SelectSeq(ret, LAMBDA r : r.demo_label # dl)
                        = weighted_crosstab(df, call.q_vals,
                                            Without(call.demo_vals, dv))

\* C6 witness: spec.md scenario 2, group 2 holds only a zero-weight record
\* and a refused one while group 1 reports 33.3 and 66.7
C6_Witness ==
    /\ InXtab
    /\ df = Scenario2
    /\ call.q_vals = CHATUSE_VALUES
    /\ GroupBase(2) = 0 /\ GroupBase(1) > 0
    /\ \E k \in 1..Len(ret) : ret[k].pct = 667

InCramers == call.fn = "cramers_v"

InBattery == call.fn = "chi2_battery"

InCustom == call.fn = "custom_chi2_test"

\* the question values and the demographic values present under the mask
PresentQ == {df[i].q : i \in {j \in 1..Len(df) : BothAnswered(j)}}

PresentD == {df[i].d : i \in {j \in 1..Len(df) : BothAnswered(j)}}

\* number of masked respondents whose answers are in Q and whose groups are in D
Observed(Q, D) ==
    Cardinality({i \in 1..Len(df) :
                    BothAnswered(i) /\ df[i].q \in Q /\ df[i].d \in D})

RECURSIVE RatSumOver(_, _)
RatSumOver(S, f) ==
    IF S = {} THEN <<0, 1>>
    ELSE LET x == CHOOSE y \in S : TRUE
         IN rat_add(f[x], RatSumOver(S \ {x}, f))

\* the uncorrected Pearson statistic of the observed table:
\* the sum over the cells of (observed - expected)^2 / expected
PearsonChi2 ==
    LET n == Observed(PresentQ, PresentD)
        Term(x) ==
            LET rc == Observed({x[1]}, PresentD) * Observed(PresentQ, {x[2]})
                t == Observed({x[1]}, {x[2]}) * n - rc
            IN rat(t * t, n * rc)
    IN RatSumOver(PresentQ \X PresentD,
                  [x \in PresentQ \X PresentD |-> Term(x)])

EnoughCategories == Cardinality(PresentQ) >= 2 /\ Cardinality(PresentD) >= 2

\* C7: for every observed table with at least 2 rows and 2 columns the chi2
\* the association test reports is the uncorrected Pearson statistic.
C7_Chi2IsPearson ==
    /\ (InBattery /\ EnoughCategories) =>
          /\ ret.status = "ok"
          /\ Len(ret.chi2_results) = 1
          /\ ret.chi2_results[1].chi2 = round2(PearsonChi2)
    /\ (InCustom /\ EnoughCategories) =>
          /\ ret.status = "ok"
          /\ ret.shown = "metrics"
          /\ ret.chi2 = round2(PearsonChi2)

\* C8: whenever cramers_v is given the observed table of a dataset with at
\* least one masked respondent it returns V with 0 <= V <= 1, and V = 0
\* when chi2 is 0 or the table has one row or one column.
C8_VBetween0And1 ==
    (InCramers /\ Observed(PresentQ, PresentD) > 0) =>
        /\ ret.status = "ok"
        /\ ret.v2[1] >= 0 /\ ret.v2[2] > 0 /\ ret.v2[1] <= ret.v2[2]
        /\ (Cardinality(PresentQ) = 1 \/ Cardinality(PresentD) = 1)
              => ret.v2[1] = 0
        /\ chi2_contingency(call.contingency_table).chi2[1] = 0
              => ret.v2[1] = 0

\* C8 witness: three answers, each given in one group only: V = 1
C8_Witness ==
    /\ InCramers
    /\ Cardinality(PresentQ) = 3 /\ Cardinality(PresentD) = 2
    /\ ret.status = "ok"
    /\ ret.v2 = <<1, 1>>

\* C9: cramers_v applied to a table whose grand total is 0 returns V = 0
\* and raises nothing.
C9_ZeroTotalGivesZero ==
    (InCramers /\ Observed(PresentQ, PresentD) = 0) =>
        ret.status = "ok" /\ ret.v2[1] = 0

\* C10: the association tests compute statistics exactly when the observed
\* table has at least 2 rows and 2 columns; otherwise the battery adds no
\* result row and the custom test shows its warning, and neither fails.
C10_FewCategoriesNoStatistics ==
    /\ InBattery =>
          /\ ret.status = "ok"
          /\ Len(ret.chi2_results) = (IF EnoughCategories THEN 1 ELSE 0)
    /\ InCustom =>
          /\ ret.status = "ok"
          /\ ret.shown = (IF EnoughCategories THEN "metrics" ELSE "warning")

\* C10 witness: two groups gave the same single answer, and the battery
\* added no row
C10_Witness ==
    /\ InBattery
    /\ Cardinality(PresentQ) = 1 /\ Cardinality(PresentD) = 2
    /\ ret.status = "ok"
    /\ ret.chi2_results = <<>>

\* the dataset with every weight replaced by 1.0
Unweighted(frame) == [i \in DOMAIN frame |-> [frame[i] EXCEPT !.w = WDen]]

\* C11: the association tests depend on the answers only, not on the weights:
\* whatever the weights of the dataset, the battery and the custom test give
\* what they give on the same answers with every weight 1.0 (the same observed
\* table, chi2, degrees of freedom, V and effect band), and each cell of the
\* observed table is the number of included respondents with that pair of
\* answers.
C11_OnlyUnweightedCounts ==
    /\ InBattery => ret = chi2_battery(Unweighted(df))
    /\ InCustom =>
          /\ ret = custom_chi2_test(Unweighted(df))
          /\ ret.status = "ok" /\ ret.shown = "metrics" =>
                /\ ret.observed.index = sorted_set(PresentQ)
                /\ ret.observed.columns = sorted_set(PresentD)
                /\ \A a \in 1..Len(ret.observed.index) :
                   \A b \in 1..Len(ret.observed.columns) :
                       ret.observed.counts[a][b] =
                           Observed({ret.observed.index[a]},
                                    {ret.observed.columns[b]})

\* the custom test has shown a positive chi2 for a dataset in which an
\* included respondent has weight 0 and another a different weight
C11_Witness ==
    /\ InCustom /\ ret.status = "ok" /\ ret.shown = "metrics"
    /\ ret.chi2 > 0
    /\ \E i, j \in 1..Len(df) :
          /\ BothAnswered(i) /\ BothAnswered(j)
          /\ df[i].w = 0 /\ df[j].w > 0

InEffect == call.fn = "effect"

InSig == call.fn = "sig"

\* strength of an effect band and of a significance band
EffectRank(b) ==
    CASE b = "Negligible" -> 0 [] b = "Small" -> 1
      [] b = "Medium" -> 2 [] b = "Large" -> 3

SigRank(b) ==
    CASE b = "n.s." -> 0 [] b = "*" -> 1 [] b = "**" -> 2 [] b = "***" -> 3

\* C12: every V >= 0 has exactly one effect band: Large exactly when
\* V > 0.5, Medium exactly when 0.3 < V <= 0.5, Small exactly when
\* 0.1 < V <= 0.3, Negligible exactly when V <= 0.1; a smaller V never has a
\* stronger band; the band computed from the square of V is the same.
C12_EffectBandStrictTopDown ==
    InEffect =>
        LET n == call.v[1]
            d == call.v[2]
        IN /\ ret \in {"Large", "Medium", "Small", "Negligible"}
           /\ ret = "Large" <=> 2 * n > d
           /\ ret = "Medium" <=> (10 * n > 3 * d /\ 2 * n <= d)
           /\ ret = "Small" <=> (10 * n > d /\ 10 * n <= 3 * d)
           /\ ret = "Negligible" <=> 10 * n <= d
           /\ \A u \in 0..n :
                 EffectRank(effect(<<u, d>>)) <= EffectRank(ret)
           /\ effect_band(<<n * n, d * d>>) = ret

\* V is exactly 0.5 and the band is Medium
C12_Witness ==
    /\ InEffect /\ 2 * call.v[1] = call.v[2]
    /\ ret = "Medium"

\* C13: every p in [0, 1] has exactly one significance band: three stars
\* exactly when p < 0.001, two exactly when 0.001 <= p < 0.01, one exactly
\* when 0.01 <= p < 0.05, n.s. exactly when p >= 0.05; a larger p never has a
\* stronger band.
C13_SigBandStrictTopDown ==
    InSig =>
        LET n == call.p[1]
            d == call.p[2]
        IN /\ ret \in {"***", "**", "*", "n.s."}
           /\ ret = "***" <=> 1000 * n < d
           /\ ret = "**" <=> (100 * n < d /\ 1000 * n >= d)
           /\ ret = "*" <=> (100 * n < 5 * d /\ 100 * n >= d)
           /\ ret = "n.s." <=> 100 * n >= 5 * d
           /\ \A u \in n..d : SigRank(sig(<<u, d>>)) <= SigRank(ret)

\* p is exactly 0.05 and the band is n.s.
C13_Witness ==
    /\ InSig /\ 100 * call.p[1] = 5 * call.p[2]
    /\ ret = "n.s."

InCi == call.fn = "ci_section"

\* record i has an answer to the question that is not the refused code
Answered(i) == df[i].q \notin {NA, REFUSED_CODE}

AnsweredCount == Cardinality({i \in 1..Len(df) : Answered(i)})

\* total weight, in 1/WDen units, of the answered records
AnsweredTotal ==
    SumTo([i \in 1..Len(df) |-> IF Answered(i) THEN df[i].w ELSE 0], Len(df))

\* sum of the squared weights of the answered records
AnsweredSquares ==
    SumTo([i \in 1..Len(df) |-> IF Answered(i) THEN df[i].w * df[i].w ELSE 0],
          Len(df))

\* C14: every row of the confidence-interval table carries the same Eff. N,
\* and when the answered records have a positive total weight it is
\* (sum of their weights)^2 / (sum of their squared weights), to the nearest
\* integer.
C14_OneEffectiveNForAllRows ==
    (InCi /\ ret.status = "ok") =>
        /\ \A k, j \in 1..Len(ret.ci_records) :
              ret.ci_records[k].eff_n = ret.ci_records[j].eff_n
        /\ AnsweredTotal > 0 =>
              \A k \in 1..Len(ret.ci_records) :
                  2 * Abs(ret.ci_records[k].eff_n * AnsweredSquares
                          - AnsweredTotal * AnsweredTotal) <= AnsweredSquares

\* answered records with two different positive weights, and an Eff. N below
\* their number
C14_Witness ==
    /\ InCi /\ ret.status = "ok"
    /\ \E i, j \in 1..Len(df) :
          /\ Answered(i) /\ Answered(j)
          /\ 0 < df[i].w /\ df[i].w < df[j].w
    /\ Len(ret.ci_records) >= 2
    /\ ret.ci_records[1].eff_n < AnsweredCount

\* C15: when all answered records have the same positive weight, Eff. N is
\* their number.
C15_EqualWeightsGiveRawCount ==
    (/\ InCi /\ ret.status = "ok"
     /\ AnsweredCount > 0
     /\ \A i, j \in 1..Len(df) :
           Answered(i) /\ Answered(j) => df[i].w = df[j].w /\ df[i].w > 0)
        => \A k \in 1..Len(ret.ci_records) :
               ret.ci_records[k].eff_n = AnsweredCount

\* spec.md scenario 4: four answered records and a refused one, all of
\* weight 1, give Eff. N 4
C15_Witness ==
    /\ InCi /\ ret.status = "ok"
    /\ df = Scenario4
    /\ \A k \in 1..Len(ret.ci_records) : ret.ci_records[k].eff_n = 4

\* C16: with non-negative weights and a positive total weight of the answered
\* records, every row has 0 <= CI Lower <= Weighted % <= CI Upper <= 100.
C16_IntervalContainsEstimate ==
    (/\ InCi /\ ret.status = "ok"
     /\ \A i \in 1..Len(df) : df[i].w >= 0
     /\ AnsweredTotal > 0)
        => \A k \in 1..Len(ret.ci_records) :
               /\ 0 <= ret.ci_records[k].ci_lower
               /\ ret.ci_records[k].ci_lower <= ret.ci_records[k].pct
               /\ ret.ci_records[k].pct <= ret.ci_records[k].ci_upper
               /\ ret.ci_records[k].ci_upper <= 10000

\* a row whose interval is cut at 0 below a positive estimate and ends
\* above it, below 100
C16_Witness ==
    /\ InCi /\ ret.status = "ok"
    /\ AnsweredTotal > 0
    /\ \E k \in 1..Len(ret.ci_records) :
          /\ ret.ci_records[k].ci_lower = 0
          /\ ret.ci_records[k].pct > 0
          /\ ret.ci_records[k].se > 0
          /\ ret.ci_records[k].ci_upper > ret.ci_records[k].pct
          /\ ret.ci_records[k].ci_upper < 10000

\* C17: when the answered records have total weight 0, the confidence-interval
\* section fails with InvalidInput and returns no rows.
C17_ZeroBaseIsInvalidInput ==
    (InCi /\ AnsweredTotal = 0) => ret.status = "InvalidInput"

\* how the current call ended: weighted_pct and weighted_crosstab have no
\* failure path and always hand back their rows
Outcome ==
    CASE InCi -> ret.status
      [] InPct \/ InXtab -> "ok"

\* C18: a call of weighted_pct, weighted_crosstab or the confidence-interval
\* section on a dataset with a negative weight ends with InvalidInput.
C18_NegativeWeightIsInvalidInput ==
    (/\ InPct \/ InXtab \/ InCi
     /\ \E i \in 1..Len(df) : df[i].w < 0)
        => Outcome = "InvalidInput"

\* the code that a label map gives the label
CodeOf(value_map, label) ==
    value_map[CHOOSE k \in 1..Len(value_map) : value_map[k].label = label].code

\* C19: the rows of weighted_pct are in strictly ascending order of their
\* codes whatever the insertion order of the label map, and none is the
\* refused code when exclude_refused is on.
C19_PctRowsAscending ==
    InPct =>
        /\ \A k \in 1..(Len(ret) - 1) : ret[k].value < ret[k + 1].value
        /\ call.exclude_refused =>
              \A k \in 1..Len(ret) : ret[k].value # REFUSED_CODE

\* the label map had the refused code first and code 2 before code 1, and
\* the rows are those of codes 1 and 2
C19_Witness ==
    /\ InPct /\ call.exclude_refused
    /\ keys(call.value_map) = <<REFUSED_CODE, 2, 1>>
    /\ Len(ret) = 2
    /\ ret[1].value = 1 /\ ret[2].value = 2

\* C20: the rows of weighted_crosstab are in ascending order of the
\* demographic code and, within one demographic category, in strictly
\* ascending order of the question code, whatever the insertion order of the
\* two label maps, and none is for a refused code.
C20_XtabRowsAscending ==
    InXtab =>
        /\ \A k \in 1..(Len(ret) - 1) :
              LET dk == CodeOf(call.demo_vals, ret[k].demo_label)
                  dn == CodeOf(call.demo_vals, ret[k + 1].demo_label)
                  qk == CodeOf(call.q_vals, ret[k].q_label)
                  qn == CodeOf(call.q_vals, ret[k + 1].q_label)
              IN dk < dn \/ (dk = dn /\ qk < qn)
        /\ \A k \in 1..Len(ret) :
              /\ CodeOf(call.demo_vals, ret[k].demo_label) # REFUSED_CODE
              /\ CodeOf(call.q_vals, ret[k].q_label) # REFUSED_CODE

\* C21: no calculator call, whatever came before it and whatever its
\* arguments, changes a value or a weight of the dataset.
C21_DatasetNeverChanges == [][df' = df]_vars

\* a third call has been made, of weighted_crosstab, on a dataset with a
\* refused answer that the call masks out
C21_Witness ==
    /\ call.fn = "weighted_crosstab" /\ call.seq = 3
    /\ \E i \in 1..Len(df) : df[i].q = REFUSED_CODE

\* what the call of session s returns when it runs alone on the dataset
AloneResult(s) ==
    IF call[s].fn = "weighted_pct"
    THEN weighted_pct(Column(df, "q"), Column(df, "w"), call[s].value_map,
                      call[s].exclude_refused)
    ELSE weighted_crosstab(df, call[s].value_map, call[s].demo_vals)

\* C22: whatever the interleaving of the steps of the sessions, a call that
\* has returned has returned what it returns alone on the dataset, and the
\* rows a call has collected so far are the first rows of that result.
C22_InterleavedCallsReturnAsAlone ==
    \A s \in Sessions :
        /\ call[s].pc = "done" => ret[s] = AloneResult(s)
        /\ call[s].pc = "loop" =>
              /\ Len(call[s].records) <= Len(AloneResult(s))
              /\ \A k \in 1..Len(call[s].records) :
                    call[s].records[k] = AloneResult(s)[k]

\* session 1 has returned from weighted_pct while session 2 is in the middle
\* of the loop of weighted_crosstab, on spec.md scenario 2
C22_Witness ==
    /\ df = Scenario2
    /\ call[1].fn = "weighted_pct" /\ call[1].pc = "done"
    /\ Len(ret[1]) = 2
    /\ call[2].fn = "weighted_crosstab" /\ call[2].pc = "loop"
    /\ Len(call[2].records) = 2

\* the rows of the current weighted_pct result for code c
RowsFor(c) == {k \in 1..Len(ret) : ret[k].value = c}

\* C23: the percentage base of weighted_pct is the weight of the records
\* whose value is not missing and, when exclude_refused is on, is not the
\* refused code: every pct is the share of that base, to the nearest tenth
\* (0 when the base is 0); with exclude_refused off the refused code has its
\* own row, whose weighted_n is the weight of the refused records.
C23_BaseIsNonMissingAndOptedIn ==
    InPct =>
        /\ \A k \in 1..Len(ret) :
              IF IncludedTotal > 0
              THEN 2 * Abs(1000 * WeightIn({ret[k].value})
                           - ret[k].pct * IncludedTotal) <= IncludedTotal
              ELSE ret[k].pct = 0
        /\ ~call.exclude_refused =>
              /\ Cardinality(RowsFor(REFUSED_CODE)) = 1
              /\ \A k \in RowsFor(REFUSED_CODE) :
                    2 * Abs(10 * WeightIn({REFUSED_CODE})
                            - ret[k].weighted_n * WDen) <= WDen
        /\ call.exclude_refused => RowsFor(REFUSED_CODE) = {}

\* exclude_refused is off, a missing and a refused record both have positive
\* weight, and the refused row has the whole base: pct 100
C23_Witness ==
    /\ InPct /\ ~call.exclude_refused
    /\ \E i, j \in 1..Len(df) :
          /\ df[i].q = NA /\ df[i].w > 0
          /\ df[j].q = REFUSED_CODE /\ df[j].w > 0
    /\ \E k \in RowsFor(REFUSED_CODE) : ret[k].pct = 1000

\* C27: with exclude_refused on, weighted_pct returns one row for each
\* non-refused key of the label map and no other row, whatever codes occur
\* in the data, and each pct is the share of the weight of all non-missing,
\* non-refused records, those with a code the map does not list included.
C27_UnlistedCodesStayInBase ==
    (InPct /\ call.exclude_refused) =>
        /\ {ret[k].value : k \in 1..Len(ret)}
               = Codes(call.value_map) \ {REFUSED_CODE}
        /\ Len(ret) = Cardinality(Codes(call.value_map) \ {REFUSED_CODE})
        /\ \A k \in 1..Len(ret) :
              IF IncludedTotal > 0
              THEN 2 * Abs(1000 * WeightIn({ret[k].value})
                           - ret[k].pct * IncludedTotal) <= IncludedTotal
              ELSE ret[k].pct = 0

\* an answer the map does not list and a listed one, both with positive
\* weight: the rows are those of the map and their pct sum to less than 100
C27_Witness ==
    /\ InPct /\ call.exclude_refused
    /\ call.value_map = CHATUSE_VALUES
    /\ \E i, j \in 1..Len(df) :
          /\ df[i].q = 3 /\ df[i].w > 0
          /\ df[j].q = 1 /\ df[j].w > 0
    /\ Len(ret) = 2
    /\ SumPct(ret) > 0 /\ SumPct(ret) < 1000

\* the dataset without the records that have no weight
WithWeight == SelectSeq(df, LAMBDA r : r.w # NaNWeight)

\* C24: a record whose weight is missing adds nothing to the weighted
\* counts, the bases and the sums of n_eff: weighted_pct, weighted_crosstab
\* and the confidence-interval section return what they return on the
\* dataset with that record removed.
C24_MissingWeightIsRecordRemoved ==
    /\ InPct => ret = weighted_pct(Column(WithWeight, "q"),
                                   Column(WithWeight, "w"), call.value_map,
                                   call.exclude_refused)
    /\ InXtab => ret = weighted_crosstab(WithWeight, call.q_vals,
                                         call.demo_vals)
    /\ InCi => ret = ci_section(WithWeight, call.q_vals_ci)

\* the confidence-interval section ran on a dataset whose first answer has
\* no weight and whose second, different answer has one: the first answer's
\* row is 0 percent and the effective sample size is 1
C24_Witness ==
    /\ InCi
    /\ Len(df) = 2
    /\ df[1].q = 1 /\ df[1].w = NaNWeight
    /\ df[2].q = 2 /\ df[2].w = 1
    /\ ret.status = "ok"
    /\ ret.ci_records[1].pct = 0
    /\ ret.ci_records[1].eff_n = 1

InPage == call.fn = "crosstab_page"

\* C25: when fewer than 2 distinct categories remain on the question axis or
\* on the demographic axis after masking, the Cross-Tabulations page does not
\* show a table of computed percentages.
C25_FewCategoriesShowNoTable ==
    (InPage /\ ~EnoughCategories) => ret.shown # "table"

InNEff == call.fn = "n_eff"

\* the answered records all have a positive weight, and two of them differ
UnequalPositiveWeights ==
    /\ \A i \in 1..Len(df) : Answered(i) => df[i].w > 0
    /\ \E i, j \in 1..Len(df) :
          Answered(i) /\ Answered(j) /\ df[i].w # df[j].w

Restricted(dv) == SelectSeq(df, LAMBDA r : r.d = dv)

\* what weighted_pct returns for the question column of the records of
\* group dv, with the label map of the current cross-tabulation
PctOfGroup(dv) ==
    weighted_pct(Column(Restricted(dv), "q"), Column(Restricted(dv), "w"),
                 call.q_vals, TRUE)

\* the rows of the current cross-tabulation for the demographic category dv
XtabRowsOf(dv) ==
    SelectSeq(ret, LAMBDA r : r.demo_label = lookup(call.demo_vals, dv))

\* C28: for every non-refused demographic category, the rows weighted_crosstab
\* returns for it carry, answer by answer, the pct weighted_pct returns for
\* the question column restricted to the records of that category.
C28_CrosstabIsPctPerGroup ==
    InXtab =>
        \A k \in 1..Len(call.demo_vals) :
            LET dv == call.demo_vals[k].code
            IN dv # REFUSED_CODE =>
                  /\ Len(XtabRowsOf(dv)) = Len(PctOfGroup(dv))
                  /\ \A r \in 1..Len(XtabRowsOf(dv)) :
                        \E p \in 1..Len(PctOfGroup(dv)) :
                            /\ PctOfGroup(dv)[p].label = XtabRowsOf(dv)[r].q_label
                            /\ PctOfGroup(dv)[p].pct = XtabRowsOf(dv)[r].pct

\* group 1 holds a Yes of weight 1 and a refused answer of weight WDen: its
\* row for Yes is 100 percent, as weighted_pct gives for the group
C28_Witness ==
    /\ InXtab
    /\ Len(df) = 2
    /\ df[1] = [q |-> 1, d |-> 1, w |-> 1]
    /\ df[2] = [q |-> REFUSED_CODE, d |-> 1, w |-> WDen]
    /\ Len(XtabRowsOf(1)) >= 1
    /\ XtabRowsOf(1)[1].q_label = "Yes" /\ XtabRowsOf(1)[1].pct = 1000
    /\ PctOfGroup(1)[1].pct = 1000

\* the dataset with every weight multiplied by c
Scaled(c) == [i \in 1..Len(df) |-> [df[i] EXCEPT !.w = c * df[i].w]]

\* the pct column of a result of weighted_pct
PctColumn(rows) == [k \in 1..Len(rows) |-> rows[k].pct]

====
